---- MODULE Spec2Model ----
(***************************************************************************)
(* State machine of the useScaffoldedLearning hook                          *)
(* (src/src/hooks/useScaffoldedLearning.js).                                *)
(*                                                                          *)
(* The hook's React state cells are the variables.  Every handler is one    *)
(* action: React re-renders after each event handler has run, so the        *)
(* values a handler closes over are the values of the state it was called   *)
(* in.  The callback handed to setTimeout is its own action.                *)
(* Strings (code, regex rules) are sequences of one-character strings.      *)
(***************************************************************************)
EXTENDS Integers, Sequences, FiniteSets, TLC

VARIABLES
    problem,            \* the problem bound at construction (never changes)
    currentStepIndex,   \* useState(0)
    userCodeByStep,     \* stepId -> code
    isHintVisible,
    currentHintIndex,
    validationMessage,
    isValidationError,
    isCompleted,
    timers,             \* number of setTimeout callbacks not yet run
    furthestUnlocked,   \* history: highest index submitStep advanced to since construction / reset
    lastCall            \* history: the handler that ran last, its argument and its return value

vars ==
    << problem, currentStepIndex, userCodeByStep, isHintVisible, currentHintIndex,
       validationMessage, isValidationError, isCompleted, timers, furthestUnlocked, lastCall >>

\* the session state the hook returns or keeps, without the history variables
session ==
    << currentStepIndex, userCodeByStep, isHintVisible, currentHintIndex,
       validationMessage, isValidationError, isCompleted >>

-----------------------------------------------------------------------------
\* Bounds of the model

MaxSteps ==
    3

MaxTimers ==
    2

-----------------------------------------------------------------------------
\* Values

NULL ==
    "null"

MsgCompleted ==
    "Congratulations! You have completed the problem!"

MsgCorrect ==
    "Correct! Moving to the next step..."

MsgIncorrect ==
    "Incorrect. Please check your code and try again. Use hints if you need help!"

\* the code strings the learner types
Codes ==
    { <<>>, <<"A">>, <<"x", "b">> }

\* the kinds of the last step of the problems explored
LastKinds ==
    { "regex", "badregex", "ast" }

\* a step in the shape of sampleProblem.steps: odd steps carry three hints and no
\* placeholder, even steps a placeholder and an empty hint list
SampleStep(i) ==
    IF i % 2 = 1
    THEN [ stepId |-> i, validationType |-> "regex", validationRule |-> <<"a">>,
           hints |-> <<"h1", "h2", "h3">> ]
    ELSE [ stepId |-> i, validationType |-> "regex", validationRule |-> <<".", "b">>,
           placeholderCode |-> <<"A">>, hints |-> <<>> ]

\* a last step that cannot be validated: a rule that does not compile, or a
\* validationType other than regex (and no hints property)
LastStep(i, kind) ==
    CASE kind = "regex"    -> SampleStep(i)
      [] kind = "badregex" -> [ stepId |-> i, validationType |-> "regex", validationRule |-> <<"(">>,
                                placeholderCode |-> <<"A">>, hints |-> <<"h1">> ]
      [] OTHER             -> [ stepId |-> i, validationType |-> "ast", validationRule |-> <<"a">> ]

MkProblem(n, kind) ==
    [ steps |-> [ i \in 1..n |-> IF i = n THEN LastStep(i, kind) ELSE SampleStep(i) ] ]

Problems ==
    { MkProblem(n, kind) : n \in 1..MaxSteps, kind \in LastKinds }

-----------------------------------------------------------------------------
\* new RegExp(rule, 'is').test(code)

ToLower(c) ==
    CASE c = "A" -> "a"
      [] c = "B" -> "b"
      [] c = "X" -> "x"
      [] OTHER   -> c

\* new RegExp(rule, 'is') throws a SyntaxError on an unterminated group
RegExpCompiles(rule) ==
    \A k \in 1..Len(rule) : rule[k] # "("

\* one pattern character against one input character: '.' matches every character
\* (flag s), a letter matches itself in either case (flag i)
CharMatches(p, c) ==
    p = "." \/ ToLower(p) = ToLower(c)

\* the pattern matches at offset o of the code
MatchesAt(rule, code, o) ==
    /\ o + Len(rule) <= Len(code)
    /\ \A k \in 1..Len(rule) : CharMatches(rule[k], code[o + k])

\* regex.test(code): the pattern is searched anywhere in the string
RegExpTest(rule, code) ==
    \E o \in 0..Len(code) : MatchesAt(rule, code, o)

-----------------------------------------------------------------------------
\* Derived state

totalSteps ==
    Len(problem.steps)

hasCurrentStep ==
    currentStepIndex + 1 \in DOMAIN problem.steps

\* problem.steps[currentStepIndex] (only used where hasCurrentStep)
currentStep ==
    problem.steps[currentStepIndex + 1]

\* the stepIds of problem.steps
stepIds ==
    { problem.steps[i].stepId : i \in DOMAIN problem.steps }

\* userCodeByStep[currentStep?.stepId] || ''
userCode ==
    IF hasCurrentStep /\ currentStep.stepId \in DOMAIN userCodeByStep
    THEN userCodeByStep[currentStep.stepId]
    ELSE <<>>

\* the hook has one index: the step it displays is the step at currentStepIndex
viewingStepIndex ==
    currentStepIndex

\* isLastStep compared against totalSteps instead of totalSteps - 1
isLastStep_OffByOne ==
    currentStepIndex = totalSteps

isLastStep ==
    currentStepIndex = totalSteps - 1

\* progress = ((currentStepIndex + (isCompleted ? 1 : 0)) / totalSteps) * 100, kept as
\* the exact fraction num / den
progress ==
    [ num |-> (currentStepIndex + (IF isCompleted THEN 1 ELSE 0)) * 100, den |-> totalSteps ]

\* step.placeholderCode || ''
PlaceholderOf(step) ==
    IF "placeholderCode" \in DOMAIN step THEN step.placeholderCode ELSE <<>>

\* the initial value of userCodeByStep
InitialCode(p) ==
    [ id \in { p.steps[i].stepId : i \in DOMAIN p.steps } |->
        PlaceholderOf(CHOOSE s \in { p.steps[i] : i \in DOMAIN p.steps } : s.stepId = id) ]

\* currentStep.hints?.length || 0
maxHints ==
    IF "hints" \in DOMAIN currentStep THEN Len(currentStep.hints) ELSE 0

\* validateStep accepting every validationType it does not know
validateStep_UnsupportedPasses ==
    IF ~hasCurrentStep THEN FALSE
    ELSE IF currentStep.validationType = "regex"
         THEN IF RegExpCompiles(currentStep.validationRule)
              THEN RegExpTest(currentStep.validationRule, userCode)
              ELSE FALSE
         ELSE TRUE

\* validateStep()
validateStep ==
    IF ~hasCurrentStep THEN FALSE
    ELSE IF currentStep.validationType = "regex"
         THEN IF RegExpCompiles(currentStep.validationRule)
              THEN RegExpTest(currentStep.validationRule, userCode)
              ELSE FALSE
         ELSE FALSE

Call(name, arg, ret) ==
    [ name |-> name, arg |-> arg, ret |-> ret ]

-----------------------------------------------------------------------------
\* Construction

Init ==
    /\ problem \in Problems
    /\ currentStepIndex = 0
    /\ userCodeByStep = InitialCode(problem)
    /\ isHintVisible = FALSE
    /\ currentHintIndex = 0
    /\ validationMessage = NULL
    /\ isValidationError = FALSE
    /\ isCompleted = FALSE
    /\ timers = 0
    /\ furthestUnlocked = 0
    /\ lastCall = Call("construct", 0, "undefined")

-----------------------------------------------------------------------------
\* Handlers

\* updateCode writing under the step's index instead of its stepId
updateCode_KeyedByIndex(newCode) ==
    /\ lastCall' = Call("updateCode", newCode, "undefined")
    /\ IF ~hasCurrentStep
       THEN UNCHANGED << userCodeByStep, validationMessage, isValidationError >>
       ELSE /\ userCodeByStep' = [ id \in DOMAIN userCodeByStep \cup { currentStepIndex } |->
                                     IF id = currentStepIndex THEN newCode ELSE userCodeByStep[id] ]
            /\ IF validationMessage # NULL
               THEN /\ validationMessage' = NULL
                    /\ isValidationError' = FALSE
               ELSE UNCHANGED << validationMessage, isValidationError >>
    /\ UNCHANGED << problem, currentStepIndex, isHintVisible, currentHintIndex, isCompleted,
                    timers, furthestUnlocked >>

updateCode(newCode) ==
    /\ lastCall' = Call("updateCode", newCode, "undefined")
    /\ IF ~hasCurrentStep
       THEN UNCHANGED << userCodeByStep, validationMessage, isValidationError >>
       ELSE /\ userCodeByStep' = [ userCodeByStep EXCEPT ![currentStep.stepId] = newCode ]
            /\ IF validationMessage # NULL
               THEN /\ validationMessage' = NULL
                    /\ isValidationError' = FALSE
               ELSE UNCHANGED << validationMessage, isValidationError >>
    /\ UNCHANGED << problem, currentStepIndex, isHintVisible, currentHintIndex, isCompleted,
                    timers, furthestUnlocked >>

toggleHint ==
    /\ lastCall' = Call("toggleHint", 0, "undefined")
    /\ isHintVisible' = ~isHintVisible
    /\ UNCHANGED << problem, currentStepIndex, userCodeByStep, currentHintIndex, validationMessage,
                    isValidationError, isCompleted, timers, furthestUnlocked >>

\* showNextHint bounded by the number of hints instead of the last hint's index
showNextHint_OffByOne ==
    /\ lastCall' = Call("showNextHint", 0, "undefined")
    /\ IF hasCurrentStep /\ currentHintIndex < maxHints
       THEN currentHintIndex' = currentHintIndex + 1
       ELSE UNCHANGED currentHintIndex
    /\ UNCHANGED << problem, currentStepIndex, userCodeByStep, isHintVisible, validationMessage,
                    isValidationError, isCompleted, timers, furthestUnlocked >>

showNextHint ==
    /\ lastCall' = Call("showNextHint", 0, "undefined")
    /\ IF hasCurrentStep /\ currentHintIndex < maxHints - 1
       THEN currentHintIndex' = currentHintIndex + 1
       ELSE UNCHANGED currentHintIndex
    /\ UNCHANGED << problem, currentStepIndex, userCodeByStep, isHintVisible, validationMessage,
                    isValidationError, isCompleted, timers, furthestUnlocked >>

\* the completion branch without setIsCompleted(true)
submitCompletes_ForgetsCompleted ==
    /\ validationMessage' = MsgCompleted
    /\ isValidationError' = FALSE
    /\ UNCHANGED << currentStepIndex, isHintVisible, currentHintIndex, isCompleted, timers,
                    furthestUnlocked >>

\* the three branches of submitStep
submitCompletes ==
    /\ isCompleted' = TRUE
    /\ validationMessage' = MsgCompleted
    /\ isValidationError' = FALSE
    /\ UNCHANGED << currentStepIndex, isHintVisible, currentHintIndex, timers, furthestUnlocked >>

\* the advancing branch without the setTimeout call
submitAdvances_NoTimeout ==
    /\ timers < MaxTimers
    /\ currentStepIndex' = currentStepIndex + 1
    /\ validationMessage' = MsgCorrect
    /\ isValidationError' = FALSE
    /\ isHintVisible' = FALSE
    /\ currentHintIndex' = 0
    /\ furthestUnlocked' = IF currentStepIndex + 1 > furthestUnlocked
                           THEN currentStepIndex + 1 ELSE furthestUnlocked
    /\ UNCHANGED << isCompleted, timers >>

\* the advancing branch without setCurrentHintIndex(0)
submitAdvances_KeepsHintIndex ==
    /\ timers < MaxTimers
    /\ currentStepIndex' = currentStepIndex + 1
    /\ validationMessage' = MsgCorrect
    /\ isValidationError' = FALSE
    /\ isHintVisible' = FALSE
    /\ timers' = timers + 1
    /\ furthestUnlocked' = IF currentStepIndex + 1 > furthestUnlocked
                           THEN currentStepIndex + 1 ELSE furthestUnlocked
    /\ UNCHANGED << isCompleted, currentHintIndex >>

submitAdvances ==
    /\ timers < MaxTimers
    /\ currentStepIndex' = currentStepIndex + 1
    /\ validationMessage' = MsgCorrect
    /\ isValidationError' = FALSE
    /\ isHintVisible' = FALSE
    /\ currentHintIndex' = 0
    /\ timers' = timers + 1
    /\ furthestUnlocked' = IF currentStepIndex + 1 > furthestUnlocked
                           THEN currentStepIndex + 1 ELSE furthestUnlocked
    /\ UNCHANGED isCompleted

\* the failure branch also hiding the hints, as the advancing branch does
submitFails_ResetsHints ==
    /\ validationMessage' = MsgIncorrect
    /\ isValidationError' = TRUE
    /\ isHintVisible' = FALSE
    /\ currentHintIndex' = 0
    /\ UNCHANGED << currentStepIndex, isCompleted, timers, furthestUnlocked >>

submitFails ==
    /\ validationMessage' = MsgIncorrect
    /\ isValidationError' = TRUE
    /\ UNCHANGED << currentStepIndex, isHintVisible, currentHintIndex, isCompleted, timers,
                    furthestUnlocked >>

submitStep ==
    /\ lastCall' = Call("submitStep", 0, IF validateStep THEN "true" ELSE "false")
    /\ IF validateStep
       THEN IF isLastStep THEN submitCompletes ELSE submitAdvances
       ELSE submitFails
    /\ UNCHANGED << problem, userCodeByStep >>

\* the guard of goToStep admitting the step after the current one
goToStepAllowed_OffByOne(stepIndex) ==
    stepIndex >= 0 /\ stepIndex <= currentStepIndex + 1

\* the guard of goToStep without its lower bound
goToStepAllowed_NoLowerBound(stepIndex) ==
    stepIndex <= currentStepIndex

\* the guard of goToStep
goToStepAllowed(stepIndex) ==
    stepIndex >= 0 /\ stepIndex <= currentStepIndex

\* goToStep without clearing the feedback
goToStep_KeepsMessage(stepIndex) ==
    /\ lastCall' = Call("goToStep", stepIndex, "undefined")
    /\ IF goToStepAllowed(stepIndex)
       THEN /\ currentStepIndex' = stepIndex
            /\ isHintVisible' = FALSE
            /\ currentHintIndex' = 0
            /\ UNCHANGED << validationMessage, isValidationError >>
       ELSE UNCHANGED << currentStepIndex, isHintVisible, currentHintIndex, validationMessage,
                         isValidationError >>
    /\ UNCHANGED << problem, userCodeByStep, isCompleted, timers, furthestUnlocked >>

goToStep(stepIndex) ==
    /\ lastCall' = Call("goToStep", stepIndex, "undefined")
    /\ IF goToStepAllowed(stepIndex)
       THEN /\ currentStepIndex' = stepIndex
            /\ isHintVisible' = FALSE
            /\ currentHintIndex' = 0
            /\ validationMessage' = NULL
            /\ isValidationError' = FALSE
       ELSE UNCHANGED << currentStepIndex, isHintVisible, currentHintIndex, validationMessage,
                         isValidationError >>
    /\ UNCHANGED << problem, userCodeByStep, isCompleted, timers, furthestUnlocked >>

\* resetProblem without re-seeding the code of the steps
resetProblem_KeepsCode ==
    /\ lastCall' = Call("resetProblem", 0, "undefined")
    /\ currentStepIndex' = 0
    /\ isHintVisible' = FALSE
    /\ currentHintIndex' = 0
    /\ validationMessage' = NULL
    /\ isValidationError' = FALSE
    /\ isCompleted' = FALSE
    /\ furthestUnlocked' = 0
    /\ UNCHANGED << problem, timers, userCodeByStep >>

resetProblem ==
    /\ lastCall' = Call("resetProblem", 0, "undefined")
    /\ currentStepIndex' = 0
    /\ userCodeByStep' = InitialCode(problem)
    /\ isHintVisible' = FALSE
    /\ currentHintIndex' = 0
    /\ validationMessage' = NULL
    /\ isValidationError' = FALSE
    /\ isCompleted' = FALSE
    /\ furthestUnlocked' = 0
    /\ UNCHANGED << problem, timers >>

\* the callback submitStep handed to setTimeout
clearMessageTimeout ==
    /\ timers > 0
    /\ lastCall' = Call("timeout", 0, "undefined")
    /\ timers' = timers - 1
    /\ validationMessage' = NULL
    /\ UNCHANGED << problem, currentStepIndex, userCodeByStep, isHintVisible, currentHintIndex,
                    isValidationError, isCompleted, furthestUnlocked >>

UpdateCodeCall ==
    \E newCode \in Codes : updateCode(newCode)

GoToStepCall ==
    \E stepIndex \in -1..totalSteps : goToStep(stepIndex)

Next ==
    \/ UpdateCodeCall
    \/ toggleHint
    \/ showNextHint
    \/ submitStep
    \/ GoToStepCall
    \/ resetProblem
    \/ clearMessageTimeout

Spec ==
    Init /\ [][Next]_vars

\* the advancing branch run by two calls of the same submitStep closure: the updater
\* prev => prev + 1 is queued twice, the other setters repeat the same value, and
\* two timeouts are scheduled
submitAdvancesTwice ==
    /\ timers + 2 <= MaxTimers
    /\ currentStepIndex' = (currentStepIndex + 1) + 1
    /\ validationMessage' = MsgCorrect
    /\ isValidationError' = FALSE
    /\ isHintVisible' = FALSE
    /\ currentHintIndex' = 0
    /\ timers' = timers + 2
    /\ furthestUnlocked' = IF currentStepIndex + 2 > furthestUnlocked
                           THEN currentStepIndex + 2 ELSE furthestUnlocked
    /\ UNCHANGED isCompleted

\* submitStep called twice before React re-renders: both calls use the isValid and
\* isLastStep of the same render
submitStepTwice ==
    /\ lastCall' = Call("submitStepTwice", 0, IF validateStep THEN "true" ELSE "false")
    /\ IF validateStep
       THEN IF isLastStep THEN submitCompletes ELSE submitAdvancesTwice
       ELSE submitFails
    /\ UNCHANGED << problem, userCodeByStep >>

NextStale ==
    \/ Next
    \/ submitStepTwice

\* the hook driven by a host that may call submitStep twice within one render
SpecStale ==
    Init /\ [][NextStale]_vars

\* the browser runs every callback handed to setTimeout once its delay has elapsed
SpecFair ==
    Init /\ [][Next]_vars /\ WF_vars(clearMessageTimeout)

-----------------------------------------------------------------------------
\* Properties

progressIsMax ==
    progress.num = 100 * progress.den

\* C1: currentStepIndex never decreases from one state to the next, except in a
\* step of resetProblem.
C1_MonotonicUnlock ==
    [][currentStepIndex' < currentStepIndex => lastCall'.name = "resetProblem"]_vars

\* C2: whenever currentStepIndex increases, the step is a submitStep whose
\* validation of the current step returned true, and the increase is exactly 1.
C2_AdvanceOnlyOnSuccess ==
    [][currentStepIndex' > currentStepIndex =>
           /\ lastCall'.name = "submitStep"
           /\ lastCall'.ret = "true"
           /\ validateStep
           /\ currentStepIndex' = currentStepIndex + 1]_vars

\* a submission has just validated and unlocked a step after the first
C2_Witness ==
    /\ lastCall.name = "submitStep"
    /\ lastCall.ret = "true"
    /\ currentStepIndex = 2
    /\ validationMessage = MsgCorrect

\* C3: the displayed step, the current step and the furthest step unlocked are always
\* existing steps: 0 <= viewingStepIndex <= currentStepIndex <= totalSteps - 1, and
\* the displayed step is never beyond the furthest step unlocked.
C3_IndexBound ==
    /\ 0 <= viewingStepIndex
    /\ viewingStepIndex <= currentStepIndex
    /\ currentStepIndex <= totalSteps - 1
    /\ viewingStepIndex <= furthestUnlocked
    /\ furthestUnlocked <= totalSteps - 1

\* a valid submission made on the last step of a problem of several steps
C3_Witness ==
    /\ totalSteps > 1
    /\ lastCall.name = "submitStep"
    /\ lastCall.ret = "true"
    /\ isCompleted
    /\ currentStepIndex = totalSteps - 1

\* C4: a submitStep whose validation fails returns false, sets the incorrect-attempt
\* message and the error flag, and changes neither the index, the code of any step,
\* the hint index, the hint visibility nor isCompleted.
C4_FailedSubmitInPlace ==
    [][lastCall'.name = "submitStep" /\ ~validateStep =>
           /\ lastCall'.ret = "false"
           /\ validationMessage' = MsgIncorrect
           /\ isValidationError' = TRUE
           /\ UNCHANGED << currentStepIndex, viewingStepIndex, userCodeByStep, isHintVisible,
                           currentHintIndex, isCompleted >>]_vars

\* a failed submission made with hints revealed on a step after the first
C4_Witness ==
    /\ lastCall.name = "submitStep"
    /\ lastCall.ret = "false"
    /\ validationMessage = MsgIncorrect
    /\ isValidationError
    /\ currentStepIndex > 0
    /\ currentHintIndex > 0
    /\ isHintVisible

\* C5: a submitStep whose validation succeeds on a step that is not the last returns
\* true, moves currentStepIndex and the displayed index to the old index + 1, ends
\* with isCompleted false and the error flag false, shows the advancing message,
\* resets the hint index to 0 and leaves the code of every step unchanged.
C5_SuccessNonFinal ==
    [][lastCall'.name = "submitStep" /\ validateStep /\ ~isLastStep =>
           /\ lastCall'.ret = "true"
           /\ currentStepIndex' = currentStepIndex + 1
           /\ viewingStepIndex' = currentStepIndex + 1
           /\ isCompleted' = FALSE
           /\ isValidationError' = FALSE
           /\ validationMessage' = MsgCorrect
           /\ currentHintIndex' = 0
           /\ userCodeByStep' = userCodeByStep]_vars

\* C6: a submitStep whose validation succeeds on the last step sets isCompleted,
\* clears the error flag, shows the completion message, keeps currentStepIndex, and
\* progress is then 100%.
C6_CompletionOnFinalStep ==
    [][lastCall'.name = "submitStep" /\ validateStep /\ isLastStep =>
           /\ lastCall'.ret = "true"
           /\ isCompleted' = TRUE
           /\ isValidationError' = FALSE
           /\ validationMessage' = MsgCompleted
           /\ currentStepIndex' = currentStepIndex
           /\ progressIsMax']_vars

\* the single-step problem completed by a valid submission
C6_Witness ==
    /\ totalSteps = 1
    /\ lastCall.name = "submitStep"
    /\ lastCall.ret = "true"
    /\ isCompleted
    /\ validationMessage = MsgCompleted
    /\ progressIsMax

\* C7: in every state, progress is 100% if and only if isCompleted.
C7_CompletionBoundary ==
    progressIsMax <=> isCompleted

\* C8: an updateCode called while the displayed step is below the furthest step
\* unlocked changes no entry of userCodeByStep.
C8_ReadOnlyReview ==
    [][lastCall'.name = "updateCode" /\ viewingStepIndex < furthestUnlocked =>
           userCodeByStep' = userCodeByStep]_vars

\* C9: after advancing to step k and going back to a step j < k, goToStep(k) alone
\* brings the displayed step back to k.
C9_ReturnFromReview ==
    [][/\ lastCall'.name = "goToStep"
       /\ lastCall'.arg = furthestUnlocked
       /\ viewingStepIndex < furthestUnlocked
       => viewingStepIndex' = furthestUnlocked]_vars

\* C10: goToStep with stepIndex < 0 or stepIndex > currentStepIndex changes nothing
\* of the session state and schedules nothing.
C10_LockedStepNoOp ==
    [][/\ lastCall'.name = "goToStep"
       /\ (lastCall'.arg < 0 \/ lastCall'.arg > currentStepIndex)
       => UNCHANGED << session, timers >>]_vars

\* a rejected goToStep that found a message, a revealed hint and edited code in place
C10_Witness ==
    /\ lastCall.name = "goToStep"
    /\ (lastCall.arg < 0 \/ lastCall.arg > currentStepIndex)
    /\ validationMessage = MsgIncorrect
    /\ isValidationError
    /\ currentHintIndex > 0
    /\ isHintVisible
    /\ userCodeByStep # InitialCode(problem)

\* C11: in every state the hint index does not exceed the number of hints of the
\* current step, also on a step without hints.
C11_HintBound ==
    hasCurrentStep => currentHintIndex <= maxHints

\* showNextHint was called on a step that has no hints, on a problem whose first
\* step has three
C11_Witness ==
    /\ lastCall.name = "showNextHint"
    /\ currentStepIndex = 1
    /\ maxHints = 0
    /\ currentHintIndex = 0

\* C12: on a step with N hints every showNextHint called below hint level N raises
\* the level by 1 and every call at level N is a no-op, so that N + 1 calls from
\* level 0 leave the level at exactly N.
C12_HintsSaturateAtCount ==
    [][lastCall'.name = "showNextHint" /\ hasCurrentStep =>
           IF currentHintIndex < maxHints
           THEN currentHintIndex' = currentHintIndex + 1
           ELSE currentHintIndex' = currentHintIndex]_vars

\* C12 as amended: on a step with N hints every showNextHint called below index
\* N - 1 raises currentHintIndex by 1 and every call at index N - 1 (or on a step
\* without hints) is a no-op; the index never exceeds N - 1, the last hint's index.
C12_HintsSaturateAtLastIndex ==
    /\ [](hasCurrentStep /\ maxHints > 0 => currentHintIndex <= maxHints - 1)
    /\ [][lastCall'.name = "showNextHint" /\ hasCurrentStep =>
              /\ IF currentHintIndex < maxHints - 1
                 THEN currentHintIndex' = currentHintIndex + 1
                 ELSE currentHintIndex' = currentHintIndex
              /\ UNCHANGED << currentStepIndex, userCodeByStep, isHintVisible, validationMessage,
                              isValidationError, isCompleted >>]_vars

\* showNextHint has brought a step of three hints to the index of its last hint
C12_Witness ==
    /\ lastCall.name = "showNextHint"
    /\ maxHints = 3
    /\ currentHintIndex = 2

\* C13: a deferred clear that runs after a later operation has put another message
\* (the incorrect-attempt or the completion message) leaves that message in place.
C13_StaleClearKeepsNewerFeedback ==
    [][lastCall'.name = "timeout" /\ validationMessage \in { MsgIncorrect, MsgCompleted } =>
           validationMessage' = validationMessage]_vars

\* C14: right after resetProblem the session state is the state at construction:
\* index 0, hints hidden at index 0, no feedback, not completed, and every step's
\* code equal to its placeholderCode or the empty string.
C14_ResetRestoresInitial ==
    lastCall.name = "resetProblem" =>
        /\ currentStepIndex = 0
        /\ viewingStepIndex = 0
        /\ currentHintIndex = 0
        /\ isHintVisible = FALSE
        /\ isCompleted = FALSE
        /\ validationMessage = NULL
        /\ isValidationError = FALSE
        /\ DOMAIN userCodeByStep = stepIds
        /\ \A i \in DOMAIN problem.steps :
               userCodeByStep[problem.steps[i].stepId] = PlaceholderOf(problem.steps[i])

\* resetProblem ran after steps had been unlocked (a deferred clear is still pending)
C14_Witness ==
    /\ lastCall.name = "resetProblem"
    /\ totalSteps > 1
    /\ timers = 2
    /\ currentStepIndex = 0
    /\ userCodeByStep = InitialCode(problem)

\* C15: goToStep with 0 <= stepIndex <= currentStepIndex displays stepIndex, sets the
\* hint index to 0 and hides the hints, clears the message and the error flag, and
\* changes neither the code of any step nor isCompleted.
C15_ValidNavigation ==
    [][/\ lastCall'.name = "goToStep"
       /\ lastCall'.arg >= 0
       /\ lastCall'.arg <= currentStepIndex
       => /\ viewingStepIndex' = lastCall'.arg
          /\ currentHintIndex' = 0
          /\ isHintVisible' = FALSE
          /\ validationMessage' = NULL
          /\ isValidationError' = FALSE
          /\ UNCHANGED << userCodeByStep, isCompleted >>]_vars

\* goToStep went back to an earlier step of a completed problem with edited code
C15_Witness ==
    /\ lastCall.name = "goToStep"
    /\ lastCall.arg = currentStepIndex
    /\ currentStepIndex < furthestUnlocked
    /\ isCompleted
    /\ userCodeByStep # InitialCode(problem)
    /\ validationMessage = NULL

\* C16: updateCode(newCode) sets the entry of the current step to newCode, leaves
\* every other entry unchanged and clears a pending message together with the error
\* flag; the keys of userCodeByStep are the stepIds of the problem in every state.
C16_PerStepIsolation ==
    /\ [](DOMAIN userCodeByStep = stepIds)
    /\ [][lastCall'.name = "updateCode" /\ hasCurrentStep =>
              /\ userCodeByStep'[currentStep.stepId] = lastCall'.arg
              /\ \A id \in stepIds \ { currentStep.stepId } :
                     userCodeByStep'[id] = userCodeByStep[id]
              /\ validationMessage # NULL =>
                     validationMessage' = NULL /\ isValidationError' = FALSE
              /\ validationMessage' = NULL
              /\ UNCHANGED << currentStepIndex, isHintVisible, currentHintIndex,
                              isCompleted >>]_vars

\* updateCode typed into the second step while the first keeps its own edited code
C16_Witness ==
    /\ lastCall.name = "updateCode"
    /\ currentStepIndex = 1
    /\ userCodeByStep[2] = <<"x", "b">>
    /\ userCodeByStep[1] = <<"A">>
    /\ validationMessage = NULL
    /\ ~isValidationError

\* the current step cannot be validated: its type is not regex or its rule does
\* not compile
unvalidatable ==
    /\ hasCurrentStep
    /\ \/ currentStep.validationType # "regex"
       \/ ~RegExpCompiles(currentStep.validationRule)

\* C17: on a step that cannot be validated, validation is false whatever the code,
\* and submitStep returns false, shows the incorrect-attempt message with the error
\* flag, and neither advances currentStepIndex nor changes isCompleted.
C17_UnvalidatableFailsSafely ==
    /\ [](unvalidatable => ~validateStep)
    /\ [][lastCall'.name = "submitStep" /\ unvalidatable =>
              /\ lastCall'.ret = "false"
              /\ validationMessage' = MsgIncorrect
              /\ isValidationError' = TRUE
              /\ UNCHANGED << currentStepIndex, isCompleted >>]_vars

\* a submission failed on a last step whose rule does not compile, with code that
\* the rules of the other steps accept
C17_Witness ==
    /\ lastCall.name = "submitStep"
    /\ lastCall.ret = "false"
    /\ hasCurrentStep
    /\ currentStepIndex = 2
    /\ currentStep.validationType = "regex"
    /\ ~RegExpCompiles(currentStep.validationRule)
    /\ userCode = <<"A">>
    /\ validationMessage = MsgIncorrect

\* the last thing that happened is a submitStep that advanced and set the transient message
justAdvanced ==
    /\ lastCall.name = "submitStep"
    /\ lastCall.ret = "true"
    /\ validationMessage = MsgCorrect

\* a handler was invoked after the advancing submission
operationInvoked ==
    /\ lastCall.name # "timeout"
    /\ ~justAdvanced

\* C18: after a submitStep that advanced and set the transient message, unless a
\* further operation is invoked, the deferred clear eventually runs and leaves
\* validationMessage null with isValidationError false.
C18_TransientMessageCleared ==
    justAdvanced ~>
        \/ lastCall.name = "timeout" /\ validationMessage = NULL /\ ~isValidationError
        \/ operationInvoked

\* the deferred clear ran right after the submission that unlocked the second step
C18_Witness ==
    /\ lastCall.name = "timeout"
    /\ validationMessage = NULL
    /\ ~isValidationError
    /\ currentStepIndex = 1
    /\ furthestUnlocked = 1
    /\ timers = 0

\* C19: in every state, validationMessage null implies isValidationError false.
C19_FeedbackFlagConsistency ==
    validationMessage = NULL => isValidationError = FALSE

\* C20: two submitStep calls made against the same rendered state advance
\* currentStepIndex by at most 1 in total and never beyond the last step.
C20_NoDoubleAdvance ==
    [][lastCall'.name = "submitStepTwice" =>
           /\ currentStepIndex' <= currentStepIndex + 1
           /\ currentStepIndex' <= totalSteps - 1]_vars

====
